---- MODULE Spec2Model ----
(***************************************************************************)
(* The request dispatch and CORS-verification pipeline of the Xhr service  *)
(* (src/service/xhr-impl.js).  One call of fetch / fetchJson / fetchText / *)
(* sendSignal is followed through its promise chain:                       *)
(*   fetchAmpCors_ -> fetch_ -> getViewerInterceptResponse                 *)
(*                 -> (interceptor response | fetchPolyfill | win.fetch)   *)
(*                 -> verifyAmpCORSHeaders | createExpectedError           *)
(*                 -> assertSuccess -> caller.                             *)
(* The helpers of utils/xhr-utils and url are modelled from the            *)
(* specification's description of them.                                    *)
(***************************************************************************)
EXTENDS Integers, Sequences, FiniteSets, TLC

VARIABLES
  ampdocSingle_,     \* this.ampdocSingle_ : "ampdoc" or "null"
  isSingleDoc,       \* what ampdocService.isSingleDoc() answered at construction
  winFetch,          \* whether this.win.fetch (the native transport) exists
  \* The remaining variables are per call: functions over Calls.
  pc,                \* position of the call in its promise chain
  api,               \* the public method that was called
  allowFailure,      \* the caller's request that non-2XX statuses fulfil
  input,             \* the url string held by fetchAmpCors_ (after setupInput)
  init,              \* the init object shared by fetchAmpCors_ and fetch_
  viewerPromise,     \* the promise of getViewerInterceptResponse
  fetchPromise,      \* the promise returned by fetch_
  corsPromise,       \* the promise returned by fetchAmpCors_
  result,            \* the promise the caller holds
  kind,              \* DispatchOutcome.kind: none | intercepted | native | fallback
  viewerQueries,     \* times the interception collaborator was consulted
  nativeCalls,       \* times win.fetch was invoked
  polyfillCalls,     \* times fetchPolyfill was invoked
  transportInit,     \* the init object the invoked transport received
  handed             \* the (input, init) fetch_ received when it was called

vars == <<ampdocSingle_, isSingleDoc, winFetch, pc, api, allowFailure, input,
          init, viewerPromise, fetchPromise, corsPromise, result, kind,
          viewerQueries, nativeCalls, polyfillCalls, transportInit, handed>>

callVars == <<pc, api, allowFailure, input, init, viewerPromise, fetchPromise,
              corsPromise, result, kind, viewerQueries, nativeCalls,
              polyfillCalls, transportInit, handed>>

envVars == <<ampdocSingle_, isSingleDoc, winFetch>>

(***************************************************************************)
(* Values                                                                  *)
(***************************************************************************)

\* The logical calls that can be in flight on the one client instance.
Calls == {1, 2}

\* The calls issued under Spec, which follows one call at a time.
Issued == {1}

\* The calling environment's origin (the OriginToken).
WinOrigin == "https://cache.example"

\* The origins a request may target.
TargetOrigins == {"https://cache.example", "https://example.com"}

\* A url string, kept as its parts: origin, path and the query parameters.
Url(origin, query) == [origin |-> origin, path |-> "/data.json", query |-> query]

\* The urls callers pass: each carries a sensitive query parameter.
InputUrls == {Url(o, <<"token=secret">>) : o \in TargetOrigins}

NoUrl == Url("", <<>>)

\* HTTP statuses the collaborators answer with.
Statuses == {200, 404, 500}

\* Values of the AMP-Access-Control-Allow-Source-Origin response header.
AllowSourceOriginValues == {"absent", "https://cache.example", "https://other.example"}

Responses == [status : Statuses, allowSourceOrigin : AllowSourceOriginValues]

NoResponse == [status |-> 0, allowSourceOrigin |-> "absent"]

\* Response.ok is derived from the status.
Ok(response) == response.status >= 200 /\ response.status < 300

\* The init objects callers pass (FetchInitDef).
InputInits ==
  [method : {"undefined", "POST"},
   body : {"undefined", "FormDataWrapper", "FormData"},
   responseType : {"undefined", "document"},
   ampCors : BOOLEAN,
   accept : {"undefined"}]

\* sendSignal's default parameter: init = {}.
EmptyInit ==
  [method |-> "undefined", body |-> "undefined", responseType |-> "undefined",
   ampCors |-> TRUE, accept |-> "undefined"]

\* Errors: the type, the target origin and message it carries, the response
\* it carries, and how many times it went through createExpectedError.
Error(type, origin, message, response, wraps) ==
  [type |-> type, origin |-> origin, message |-> message,
   response |-> response, wraps |-> wraps]

NoError == Error("none", "", "", NoResponse, 0)

\* Promises.
Pending == [state |-> "pending", value |-> NoResponse, reason |-> NoError]
Fulfilled(response) == [state |-> "fulfilled", value |-> response, reason |-> NoError]
Rejected(error) == [state |-> "rejected", value |-> NoResponse, reason |-> error]

\* What the interception collaborator may answer: nothing, or a response.
Nothing == [status |-> -1, allowSourceOrigin |-> "absent"]

\* Reasons the collaborators reject with.
TransportFailure == Error("TransportFailure", "", "Failed to fetch", NoResponse, 0)
InterceptFailure == Error("InterceptFailure", "", "viewer rejected", NoResponse, 0)

(***************************************************************************)
(* Helpers of utils/xhr-utils, url and form-data-wrapper                   *)
(***************************************************************************)

\* setupInit(opt_init, opt_accept): method defaults to GET; the Accept header
\* is forced when one is given.
SetupInit(opt_init, opt_accept) ==
  [opt_init EXCEPT
     !.method = IF @ = "undefined" THEN "GET" ELSE @,
     !.accept = IF opt_accept = "undefined" THEN @ ELSE opt_accept]

\* setupJsonFetchInit(opt_init): forces Accept: application/json.
SetupJsonFetchInit(opt_init) == [opt_init EXCEPT !.accept = "application/json"]

\* The Normalizer's failure: a document responseMode combined with a
\* body-bearing method.
InvalidConfiguration(i) == i.responseType = "document" /\ i.method = "POST"

InvalidConfigurationError ==
  Error("InvalidConfiguration", "", "contradictory request options", NoResponse, 0)

\* getCorsUrl(win, url): appends the __amp_source_origin parameter carrying
\* the OriginToken, unless the url targets the caller's own origin.
GetCorsUrl(url) ==
  IF url.origin = WinOrigin
    THEN url
    ELSE [url EXCEPT !.query = Append(@, "__amp_source_origin=" \o WinOrigin)]

\* setupInput(win, input, init): tags the url unless ampCors is false.
SetupInput(url, i) == IF i.ampCors # FALSE THEN GetCorsUrl(url) ELSE url

\* setupAMPCors(win, input, init): returns the init of the tagged request.
SetupAMPCors(url, i) == i

\* parseUrlDeprecated(url).origin
ParseUrlOrigin(url) == url.origin

\* isFormDataWrapper(body) and FormDataWrapper.getFormData()
IsFormDataWrapper(body) == body = "FormDataWrapper"
GetFormData(body) == "FormData"

\* getViewerInterceptResponse consults the interception collaborator only
\* when it is handed an ampdoc.
ViewerConsulted(ampdocSingle) == ampdocSingle # "null"

\* What the interception collaborator may settle its promise with.
ViewerOutcomes(ampdocSingle) ==
  IF ViewerConsulted(ampdocSingle)
    THEN {Fulfilled(r) : r \in Responses \cup {Nothing}} \cup {Rejected(InterceptFailure)}
    ELSE {Fulfilled(Nothing)}

\* What a transport may settle its promise with.
TransportOutcomes == {Fulfilled(r) : r \in Responses} \cup {Rejected(TransportFailure)}

CorsVerificationFailed ==
  Error("CorsVerificationFailed", "", "source origin not allowed", NoResponse, 0)

\* verifyAmpCORSHeaders(win, response, init): with CORS mode on, the response
\* must carry the allow-source-origin header naming the caller's origin.
VerifyAmpCORSHeaders(response, i) ==
  IF i.ampCors # FALSE /\ response.allowSourceOrigin # WinOrigin
    THEN Rejected(CorsVerificationFailed)
    ELSE Fulfilled(response)

\* assertSuccess(response): rejects a non-2XX response with an error that
\* carries the response.
AssertSuccess(response) ==
  IF Ok(response)
    THEN Fulfilled(response)
    ELSE Rejected(Error("HttpError", "", "HTTP error", response, 0))

(***************************************************************************)
(* The Xhr service                                                         *)
(***************************************************************************)

\* Variant: the constructor takes the ampdoc without asking isSingleDoc().
AmpdocSingleFor_Always(single) == "ampdoc"

\* The arguments of fetch_(input, init).
Request(url, i) == [input |-> url, init |-> i]

\* constructor: this.ampdocSingle_ =
\*     ampdocService.isSingleDoc() ? ampdocService.getAmpDoc() : null
AmpdocSingleFor(single) == IF single THEN "ampdoc" ELSE "null"

Init ==
  /\ isSingleDoc \in BOOLEAN
  /\ ampdocSingle_ = AmpdocSingleFor(isSingleDoc)
  /\ winFetch \in BOOLEAN
  /\ pc = [c \in Calls |-> "idle"]
  /\ api = [c \in Calls |-> "none"]
  /\ allowFailure = [c \in Calls |-> FALSE]
  /\ input = [c \in Calls |-> NoUrl]
  /\ init = [c \in Calls |-> EmptyInit]
  /\ viewerPromise = [c \in Calls |-> Pending]
  /\ fetchPromise = [c \in Calls |-> Pending]
  /\ corsPromise = [c \in Calls |-> Pending]
  /\ result = [c \in Calls |-> Pending]
  /\ kind = [c \in Calls |-> "none"]
  /\ viewerQueries = [c \in Calls |-> 0]
  /\ nativeCalls = [c \in Calls |-> 0]
  /\ polyfillCalls = [c \in Calls |-> 0]
  /\ transportInit = [c \in Calls |-> EmptyInit]
  /\ handed = [c \in Calls |-> Request(NoUrl, EmptyInit)]

\* fetchAmpCors_(input, init), up to the call of getViewerInterceptResponse
\* in fetch_: the url is tagged, the CORS init is set up and the
\* interception query is issued.
fetchAmpCors_(c, name, url, i, allow) ==
  /\ api' = [api EXCEPT ![c] = name]
  /\ allowFailure' = [allowFailure EXCEPT ![c] = allow]
  /\ input' = [input EXCEPT ![c] = SetupInput(url, i)]
  /\ init' = [init EXCEPT ![c] = SetupAMPCors(SetupInput(url, i), i)]
  /\ viewerQueries' = [viewerQueries EXCEPT
        ![c] = IF ViewerConsulted(ampdocSingle_) THEN @ + 1 ELSE @]
  /\ handed' = [handed EXCEPT
        ![c] = Request(SetupInput(url, i), SetupAMPCors(SetupInput(url, i), i))]
  /\ pc' = [pc EXCEPT ![c] = "intercept"]
  /\ UNCHANGED <<viewerPromise, fetchPromise, corsPromise, result, kind,
                 nativeCalls, polyfillCalls, transportInit>>
  /\ UNCHANGED envVars

\* setupInit throws: the call fails before fetchAmpCors_ is entered.
Throw(c, name, url, i, allow, error) ==
  /\ api' = [api EXCEPT ![c] = name]
  /\ allowFailure' = [allowFailure EXCEPT ![c] = allow]
  /\ input' = [input EXCEPT ![c] = url]
  /\ init' = [init EXCEPT ![c] = i]
  /\ result' = [result EXCEPT ![c] = Rejected(error)]
  /\ pc' = [pc EXCEPT ![c] = "done"]
  /\ UNCHANGED <<viewerPromise, fetchPromise, corsPromise, kind, viewerQueries,
                 nativeCalls, polyfillCalls, transportInit, handed>>
  /\ UNCHANGED envVars

\* fetch(input, opt_init), called by the public method `name`:
\*   const init = setupInit(opt_init); return this.fetchAmpCors_(input, init)...
fetchAs(c, name, url, opt_init, allow) ==
  IF InvalidConfiguration(SetupInit(opt_init, "undefined"))
    THEN Throw(c, name, url, opt_init, allow, InvalidConfigurationError)
    ELSE fetchAmpCors_(c, name, url, SetupInit(opt_init, "undefined"), allow)

\* fetch(input, opt_init)
fetch(c) ==
  /\ pc[c] = "idle"
  /\ \E url \in InputUrls, opt_init \in InputInits, allow \in BOOLEAN :
       fetchAs(c, "fetch", url, opt_init, allow)

\* fetchJson(input, opt_init, opt_allowFailure):
\*   return this.fetch(input, setupJsonFetchInit(opt_init))
fetchJson(c) ==
  /\ pc[c] = "idle"
  /\ \E url \in InputUrls, opt_init \in InputInits, opt_allowFailure \in BOOLEAN :
       fetchAs(c, "fetchJson", url, SetupJsonFetchInit(opt_init), opt_allowFailure)

\* fetchText(input, opt_init):
\*   return this.fetch(input, setupInit(opt_init, 'text/plain'))
fetchText(c) ==
  /\ pc[c] = "idle"
  /\ \E url \in InputUrls, opt_init \in InputInits, allow \in BOOLEAN :
       IF InvalidConfiguration(SetupInit(opt_init, "text/plain"))
         THEN Throw(c, "fetchText", url, opt_init, allow, InvalidConfigurationError)
         ELSE fetchAs(c, "fetchText", url, SetupInit(opt_init, "text/plain"), allow)

\* sendSignal(input, opt_init): return this.fetchAmpCors_(input, opt_init)...
sendSignal(c) ==
  /\ pc[c] = "idle"
  /\ \E url \in InputUrls, opt_init \in InputInits, allow \in BOOLEAN :
       fetchAmpCors_(c, "sendSignal", url, opt_init, allow)

\* The promise of getViewerInterceptResponse settles.
ViewerSettle(c) ==
  /\ pc[c] = "intercept"
  /\ \E outcome \in ViewerOutcomes(ampdocSingle_) :
       viewerPromise' = [viewerPromise EXCEPT ![c] = outcome]
  /\ pc' = [pc EXCEPT ![c] = "interceptSettled"]
  /\ UNCHANGED <<handed, api, allowFailure, input, init, fetchPromise, corsPromise,
                 result, kind, viewerQueries, nativeCalls, polyfillCalls,
                 transportInit>>
  /\ UNCHANGED envVars

\* Variant: the body is handed on as it came.
UnwrapBody_Skipped(i) == i

\* fetch_: if (isFormDataWrapper(init.body)) init.body = init.body.getFormData()
UnwrapBody(i) ==
  IF IsFormDataWrapper(i.body) THEN [i EXCEPT !.body = GetFormData(@)] ELSE i

\* Variant: the responseType test is missing.
SelectTransport_IgnoreDocument(i, hasFetch) ==
  IF hasFetch THEN "native" ELSE "fallback"

\* Variant: the polyfill is used whether or not win.fetch exists.
SelectTransport_AlwaysPolyfill(i, hasFetch) == "fallback"

\* fetch_: if (init.responseType == 'document') return fetchPolyfill(input, init);
\*         return (this.win.fetch || fetchPolyfill).apply(null, arguments);
SelectTransport(i, hasFetch) ==
  IF i.responseType = "document" THEN "fallback"
  ELSE IF hasFetch THEN "native" ELSE "fallback"

\* Variant: the interceptor's answer is never taken as a response.
HasInterceptorResponse_Never(interceptorResponse) == FALSE

\* fetch_: if (interceptorResponse) { return interceptorResponse; }
HasInterceptorResponse(interceptorResponse) == interceptorResponse # Nothing

\* fetch_'s callback, handed an interceptor response: it is returned as is.
fetch_Intercepted(c) ==
  /\ pc[c] = "interceptSettled"
  /\ viewerPromise[c].state = "fulfilled"
  /\ HasInterceptorResponse(viewerPromise[c].value)
  /\ fetchPromise' = [fetchPromise EXCEPT ![c] = Fulfilled(viewerPromise[c].value)]
  /\ kind' = [kind EXCEPT ![c] = "intercepted"]
  /\ pc' = [pc EXCEPT ![c] = "fetched"]
  /\ UNCHANGED <<handed, api, allowFailure, input, init, viewerPromise, corsPromise,
                 result, viewerQueries, nativeCalls, polyfillCalls, transportInit>>
  /\ UNCHANGED envVars

\* Variant: the init object is shared by the calls in flight, so unwrapping
\* and dispatching one call rewrites the init of the others.
fetch_Dispatch_SharedInit(c) ==
  /\ pc[c] = "interceptSettled"
  /\ viewerPromise[c].state = "fulfilled"
  /\ ~HasInterceptorResponse(viewerPromise[c].value)
  /\ init' = [d \in Calls |-> UnwrapBody(init[c])]
  /\ kind' = [kind EXCEPT ![c] = SelectTransport(UnwrapBody(init[c]), winFetch)]
  /\ nativeCalls' = [nativeCalls EXCEPT
        ![c] = IF SelectTransport(UnwrapBody(init[c]), winFetch) = "native"
                 THEN @ + 1 ELSE @]
  /\ polyfillCalls' = [polyfillCalls EXCEPT
        ![c] = IF SelectTransport(UnwrapBody(init[c]), winFetch) = "fallback"
                 THEN @ + 1 ELSE @]
  /\ transportInit' = [transportInit EXCEPT ![c] = UnwrapBody(init[c])]
  /\ pc' = [pc EXCEPT ![c] = "transport"]
  /\ UNCHANGED <<handed, api, allowFailure, input, viewerPromise, fetchPromise,
                 corsPromise, result, viewerQueries>>
  /\ UNCHANGED envVars

\* Variant: the transport is invoked without waiting for the interception
\* promise to settle.
fetch_Dispatch_Eager(c) ==
  /\ \/ pc[c] = "intercept"
     \/ /\ pc[c] = "interceptSettled"
        /\ viewerPromise[c].state = "fulfilled"
        /\ ~HasInterceptorResponse(viewerPromise[c].value)
  /\ init' = [init EXCEPT ![c] = UnwrapBody(@)]
  /\ kind' = [kind EXCEPT ![c] = SelectTransport(UnwrapBody(init[c]), winFetch)]
  /\ nativeCalls' = [nativeCalls EXCEPT
        ![c] = IF SelectTransport(UnwrapBody(init[c]), winFetch) = "native"
                 THEN @ + 1 ELSE @]
  /\ polyfillCalls' = [polyfillCalls EXCEPT
        ![c] = IF SelectTransport(UnwrapBody(init[c]), winFetch) = "fallback"
                 THEN @ + 1 ELSE @]
  /\ transportInit' = [transportInit EXCEPT ![c] = UnwrapBody(init[c])]
  /\ pc' = [pc EXCEPT ![c] = "transport"]
  /\ UNCHANGED <<handed, api, allowFailure, input, viewerPromise, fetchPromise,
                 corsPromise, result, viewerQueries>>
  /\ UNCHANGED envVars

\* fetch_'s callback, handed no interceptor response: the body is unwrapped in
\* place and the selected transport is invoked with (input, init).
fetch_Dispatch(c) ==
  /\ pc[c] = "interceptSettled"
  /\ viewerPromise[c].state = "fulfilled"
  /\ ~HasInterceptorResponse(viewerPromise[c].value)
  /\ init' = [init EXCEPT ![c] = UnwrapBody(@)]
  /\ kind' = [kind EXCEPT ![c] = SelectTransport(UnwrapBody(init[c]), winFetch)]
  /\ nativeCalls' = [nativeCalls EXCEPT
        ![c] = IF SelectTransport(UnwrapBody(init[c]), winFetch) = "native"
                 THEN @ + 1 ELSE @]
  /\ polyfillCalls' = [polyfillCalls EXCEPT
        ![c] = IF SelectTransport(UnwrapBody(init[c]), winFetch) = "fallback"
                 THEN @ + 1 ELSE @]
  /\ transportInit' = [transportInit EXCEPT ![c] = UnwrapBody(init[c])]
  /\ pc' = [pc EXCEPT ![c] = "transport"]
  /\ UNCHANGED <<handed, api, allowFailure, input, viewerPromise, fetchPromise,
                 corsPromise, result, viewerQueries>>
  /\ UNCHANGED envVars

\* Variant: a rejection of the interception promise is dropped, and the
\* promise fetch_ returned never settles.
fetch_Rejected_Dropped(c) ==
  /\ pc[c] = "interceptSettled"
  /\ viewerPromise[c].state = "rejected"
  /\ FALSE
  /\ UNCHANGED vars

\* Variant: a rejection of the interception promise is caught and the call
\* falls through to transport selection.
fetch_Rejected_FallsThrough(c) ==
  /\ pc[c] = "interceptSettled"
  /\ viewerPromise[c].state = "rejected"
  /\ init' = [init EXCEPT ![c] = UnwrapBody(@)]
  /\ kind' = [kind EXCEPT ![c] = SelectTransport(UnwrapBody(init[c]), winFetch)]
  /\ nativeCalls' = [nativeCalls EXCEPT
        ![c] = IF SelectTransport(UnwrapBody(init[c]), winFetch) = "native"
                 THEN @ + 1 ELSE @]
  /\ polyfillCalls' = [polyfillCalls EXCEPT
        ![c] = IF SelectTransport(UnwrapBody(init[c]), winFetch) = "fallback"
                 THEN @ + 1 ELSE @]
  /\ transportInit' = [transportInit EXCEPT ![c] = UnwrapBody(init[c])]
  /\ pc' = [pc EXCEPT ![c] = "transport"]
  /\ UNCHANGED <<handed, api, allowFailure, input, viewerPromise, fetchPromise,
                 corsPromise, result, viewerQueries>>
  /\ UNCHANGED envVars

\* The interception promise rejected: fetch_'s callback is not run and the
\* promise fetch_ returned rejects with the same reason.
fetch_Rejected(c) ==
  /\ pc[c] = "interceptSettled"
  /\ viewerPromise[c].state = "rejected"
  /\ fetchPromise' = [fetchPromise EXCEPT ![c] = Rejected(viewerPromise[c].reason)]
  /\ pc' = [pc EXCEPT ![c] = "fetched"]
  /\ UNCHANGED <<handed, api, allowFailure, input, init, viewerPromise, corsPromise,
                 result, kind, viewerQueries, nativeCalls, polyfillCalls,
                 transportInit>>
  /\ UNCHANGED envVars

\* Variant: a rejected transport sends the call back to transport selection.
TransportSettle_Retry(c) ==
  /\ pc[c] = "transport"
  /\ \E outcome \in TransportOutcomes :
       IF outcome.state = "rejected"
         THEN /\ pc' = [pc EXCEPT ![c] = "interceptSettled"]
              /\ UNCHANGED fetchPromise
         ELSE /\ pc' = [pc EXCEPT ![c] = "fetched"]
              /\ fetchPromise' = [fetchPromise EXCEPT ![c] = outcome]
  /\ UNCHANGED <<handed, api, allowFailure, input, init, viewerPromise, corsPromise,
                 result, kind, viewerQueries, nativeCalls, polyfillCalls,
                 transportInit>>
  /\ UNCHANGED envVars

\* The invoked transport settles its promise.
TransportSettle(c) ==
  /\ pc[c] = "transport"
  /\ \E outcome \in TransportOutcomes :
       fetchPromise' = [fetchPromise EXCEPT ![c] = outcome]
  /\ pc' = [pc EXCEPT ![c] = "fetched"]
  /\ UNCHANGED <<handed, api, allowFailure, input, init, viewerPromise, corsPromise,
                 result, kind, viewerQueries, nativeCalls, polyfillCalls,
                 transportInit>>
  /\ UNCHANGED envVars

\* Variant: the error names the whole url instead of its origin.
CreateExpectedError_FullUrl(url, reason) ==
  Error("XHR", url.origin \o url.path \o "?" \o url.query[1], reason.message,
        NoResponse, reason.wraps + 1)

\* fetchAmpCors_'s rejection handler:
\*   const targetOrigin = parseUrlDeprecated(input).origin;
\*   throw user().createExpectedError('XHR', 'Failed fetching' +
\*       ` (${targetOrigin}/...):`, reason && reason.message);
CreateExpectedError(url, reason) ==
  Error("XHR", ParseUrlOrigin(url), reason.message, NoResponse, reason.wraps + 1)

\* Variant: no rejection handler, the transport's reason passes through.
FetchAmpCorsSettled_NoWrap(promise, url, i) ==
  IF promise.state = "fulfilled"
    THEN VerifyAmpCORSHeaders(promise.value, i)
    ELSE promise

\* Variant: the response is passed on without verifyAmpCORSHeaders.
FetchAmpCorsSettled_NoVerify(promise, url, i) ==
  IF promise.state = "fulfilled"
    THEN promise
    ELSE Rejected(CreateExpectedError(url, promise.reason))

\* Variant: the status is asserted before the headers are verified.
FetchAmpCorsSettled_StatusFirst(promise, url, i) ==
  IF promise.state = "fulfilled"
    THEN IF Ok(promise.value)
           THEN VerifyAmpCORSHeaders(promise.value, i)
           ELSE AssertSuccess(promise.value)
    ELSE Rejected(CreateExpectedError(url, promise.reason))

\* this.fetch_(input, init).then(response => verifyAmpCORSHeaders(...),
\*                               reason => { throw createExpectedError(...) })
FetchAmpCorsSettled(promise, url, i) ==
  IF promise.state = "fulfilled"
    THEN VerifyAmpCORSHeaders(promise.value, i)
    ELSE Rejected(CreateExpectedError(url, promise.reason))

\* Variant: an interceptor response is passed on unverified.
fetchAmpCors_Then_TrustIntercepted(c) ==
  /\ pc[c] = "fetched"
  /\ corsPromise' = [corsPromise EXCEPT
        ![c] = IF kind[c] = "intercepted"
                 THEN fetchPromise[c]
                 ELSE VerifyAmpCORSHeaders(fetchPromise[c].value, init[c])]
  /\ pc' = [pc EXCEPT ![c] = "verified"]
  /\ UNCHANGED <<handed, api, allowFailure, input, init, viewerPromise, fetchPromise,
                 result, kind, viewerQueries, nativeCalls, polyfillCalls,
                 transportInit>>
  /\ UNCHANGED envVars

\* The two handlers fetchAmpCors_ attached to fetch_'s promise run.
fetchAmpCors_Then(c) ==
  /\ pc[c] = "fetched"
  /\ corsPromise' = [corsPromise EXCEPT
        ![c] = FetchAmpCorsSettled(fetchPromise[c], input[c], init[c])]
  /\ pc' = [pc EXCEPT ![c] = "verified"]
  /\ UNCHANGED <<handed, api, allowFailure, input, init, viewerPromise, fetchPromise,
                 result, kind, viewerQueries, nativeCalls, polyfillCalls,
                 transportInit>>
  /\ UNCHANGED envVars

\* Variant: the success assertion is left out.
AssertSuccessSettled_Skipped(promise, allow) == promise

\* fetch / sendSignal: this.fetchAmpCors_(...).then(response =>
\*   assertSuccess(response)); a rejection passes through unchanged.
AssertSuccessSettled(promise, allow) ==
  IF promise.state = "fulfilled" THEN AssertSuccess(promise.value) ELSE promise

\* Variant: sendSignal hands the verified response on without asserting
\* its status.
assertSuccessThen_SignalUnchecked(c) ==
  /\ pc[c] = "verified"
  /\ result' = [result EXCEPT
        ![c] = IF api[c] = "sendSignal"
                 THEN corsPromise[c]
                 ELSE AssertSuccessSettled(corsPromise[c], allowFailure[c])]
  /\ pc' = [pc EXCEPT ![c] = "done"]
  /\ UNCHANGED <<handed, api, allowFailure, input, init, viewerPromise, fetchPromise,
                 corsPromise, kind, viewerQueries, nativeCalls, polyfillCalls,
                 transportInit>>
  /\ UNCHANGED envVars

\* The handler fetch / sendSignal attached runs and the caller's promise settles.
assertSuccessThen(c) ==
  /\ pc[c] = "verified"
  /\ result' = [result EXCEPT
        ![c] = AssertSuccessSettled(corsPromise[c], allowFailure[c])]
  /\ pc' = [pc EXCEPT ![c] = "done"]
  /\ UNCHANGED <<handed, api, allowFailure, input, init, viewerPromise, fetchPromise,
                 corsPromise, kind, viewerQueries, nativeCalls, polyfillCalls,
                 transportInit>>
  /\ UNCHANGED envVars

Step(c) ==
  \/ fetch(c)
  \/ fetchJson(c)
  \/ fetchText(c)
  \/ sendSignal(c)
  \/ ViewerSettle(c)
  \/ fetch_Intercepted(c)
  \/ fetch_Dispatch(c)
  \/ fetch_Rejected(c)
  \/ TransportSettle(c)
  \/ fetchAmpCors_Then(c)
  \/ assertSuccessThen(c)

Next == \E c \in Issued : Step(c)

Spec == Init /\ [][Next]_vars

\* The requests made when two calls are in flight together: cross-origin,
\* CORS mode on, a wrapped body, with and without responseType 'document'.
ConcurrentUrls == {Url("https://example.com", <<"token=secret">>)}

ConcurrentInits ==
  [method : {"undefined"},
   body : {"FormDataWrapper"},
   responseType : {"undefined", "document"},
   ampCors : {TRUE},
   accept : {"undefined"}]

\* fetch(input, opt_init), made while another call may be in flight.
fetchConcurrent(c) ==
  /\ pc[c] = "idle"
  /\ \E url \in ConcurrentUrls, opt_init \in ConcurrentInits :
       fetchAs(c, "fetch", url, opt_init, FALSE)

\* sendSignal(input, opt_init), made while another call may be in flight.
sendSignalConcurrent(c) ==
  /\ pc[c] = "idle"
  /\ \E url \in ConcurrentUrls, opt_init \in ConcurrentInits :
       fetchAmpCors_(c, "sendSignal", url, opt_init, FALSE)

StepConcurrent(c) ==
  \/ fetchConcurrent(c)
  \/ sendSignalConcurrent(c)
  \/ ViewerSettle(c)
  \/ fetch_Intercepted(c)
  \/ fetch_Dispatch(c)
  \/ fetch_Rejected(c)
  \/ TransportSettle(c)
  \/ fetchAmpCors_Then(c)
  \/ assertSuccessThen(c)

\* Any call may take the next step: the callbacks of the calls in flight
\* interleave in every order.
NextConcurrent == \E c \in Calls : StepConcurrent(c)

SpecConcurrent == Init /\ [][NextConcurrent]_vars

\* The interception collaborator and the invoked transport settle their
\* promises, and the job queue runs every handler of a settled promise.
Fairness ==
  \A c \in Issued :
    /\ WF_vars(ViewerSettle(c))
    /\ WF_vars(fetch_Intercepted(c))
    /\ WF_vars(fetch_Dispatch(c))
    /\ WF_vars(fetch_Rejected(c))
    /\ WF_vars(TransportSettle(c))
    /\ WF_vars(fetchAmpCors_Then(c))
    /\ WF_vars(assertSuccessThen(c))

FairSpec == Spec /\ Fairness

(***************************************************************************)
(* Properties                                                              *)
(***************************************************************************)

Settled(c) == pc[c] = "done"

\* The call obtained a response, from the interceptor or from a transport.
GotResponse(c) ==
  pc[c] \in {"fetched", "verified", "done"} /\ fetchPromise[c].state = "fulfilled"

HttpErrorFor(response) == Error("HttpError", "", "HTTP error", response, 0)

C2_VerificationUniform ==
  \A c \in Calls :
    (Settled(c) /\ GotResponse(c))
    => LET r == fetchPromise[c].value
           originFails == init[c].ampCors /\ r.allowSourceOrigin # WinOrigin
       IN  /\ kind[c] \in {"intercepted", "native", "fallback"}
           /\ originFails => result[c] = Rejected(CorsVerificationFailed)
           /\ (~originFails /\ ~Ok(r)) => result[c] = Rejected(HttpErrorFor(r))
           /\ (~originFails /\ Ok(r)) => result[c] = Fulfilled(r)

\* C2 witness: an intercepted response naming another origin was rejected by
\* the origin check.
C2_Witness ==
  \E c \in Calls :
    /\ Settled(c) /\ kind[c] = "intercepted" /\ init[c].ampCors
    /\ fetchPromise[c].value.allowSourceOrigin = "https://other.example"
    /\ result[c] = Rejected(CorsVerificationFailed)

\* C3: a document request that was not answered by the interceptor is sent
\* through the fallback transport, and the native transport is never invoked
\* for a document request, with or without win.fetch.
C3_DocumentNeverNative ==
  \A c \in Calls :
    init[c].responseType = "document"
    => /\ nativeCalls[c] = 0
       /\ kind[c] # "native"
       /\ (pc[c] \in {"transport", "fetched", "verified", "done"}
             /\ api[c] # "none" /\ viewerPromise[c] = Fulfilled(Nothing))
            => (kind[c] = "fallback" /\ polyfillCalls[c] = 1)

\* C3 witness: win.fetch exists and a document request went to the polyfill.
C3_Witness ==
  \E c \in Calls :
    /\ winFetch /\ init[c].responseType = "document"
    /\ kind[c] = "fallback" /\ polyfillCalls[c] = 1 /\ nativeCalls[c] = 0

\* C4: with CORS mode on, the caller's promise fulfils only with a response
\* whose allow-source-origin header names the caller's origin; a response
\* (from a transport or the interceptor) without the header, or naming
\* another origin, is rejected with CorsVerificationFailed.
C4_ResolvesOnlyWithOriginProof ==
  \A c \in Calls :
    init[c].ampCors
    => /\ result[c].state = "fulfilled"
            => /\ result[c].value = fetchPromise[c].value
               /\ result[c].value.allowSourceOrigin = WinOrigin
       /\ (Settled(c) /\ GotResponse(c)
             /\ fetchPromise[c].value.allowSourceOrigin # WinOrigin)
            => result[c] = Rejected(CorsVerificationFailed)

\* C4 witness: a transport answered 200 with the header naming another
\* origin and the call was rejected.
C4_Witness ==
  \E c \in Calls :
    /\ Settled(c) /\ init[c].ampCors /\ kind[c] = "native"
    /\ fetchPromise[c] =
         Fulfilled([status |-> 200, allowSourceOrigin |-> "https://other.example"])
    /\ result[c] = Rejected(CorsVerificationFailed)

\* C5 as stated: a call made with allowFailure = true whose response has
\* status 500 and a valid allow-source-origin header fulfils with that
\* response (fetchJson's opt_allowFailure included).
C5_AllowFailureFulfils ==
  \A c \in Calls :
    (Settled(c) /\ allowFailure[c] /\ GotResponse(c)
       /\ fetchPromise[c].value.status = 500
       /\ fetchPromise[c].value.allowSourceOrigin = WinOrigin)
    => result[c] = Fulfilled(fetchPromise[c].value)

\* C6: with CORS mode on, the origin check runs before the status check and
\* is not downgraded by the status settings: a response without the
\* allow-source-origin header is rejected with CorsVerificationFailed for
\* every allowFailure and every status, and that rejection is settled
\* before the success assertion runs.
C6_OriginCheckFirst ==
  \A c \in Calls :
    (init[c].ampCors /\ GotResponse(c)
       /\ fetchPromise[c].value.allowSourceOrigin = "absent")
    => /\ pc[c] = "fetched" => (corsPromise[c] = Pending /\ result[c] = Pending)
       /\ pc[c] = "verified"
            => (corsPromise[c] = Rejected(CorsVerificationFailed)
                  /\ result[c] = Pending)
       /\ pc[c] = "done" => result[c] = Rejected(CorsVerificationFailed)

\* C6 witness: allowFailure was asked for, the response had status 500 and
\* no header, and the call was rejected by the origin check.
C6_Witness ==
  \E c \in Calls :
    /\ Settled(c) /\ init[c].ampCors /\ allowFailure[c]
    /\ fetchPromise[c] = Fulfilled([status |-> 500, allowSourceOrigin |-> "absent"])
    /\ result[c] = Rejected(CorsVerificationFailed)

\* C7: with CORS mode off the origin check is skipped but the status check
\* is not: unless allowFailure was asked for, a response with a non-2XX
\* status is rejected with the HttpError that carries it, whatever its
\* allow-source-origin header.
C7_StatusCheckedWithoutCors ==
  \A c \in Calls :
    (Settled(c) /\ init[c].ampCors = FALSE /\ ~allowFailure[c]
       /\ GotResponse(c) /\ ~Ok(fetchPromise[c].value))
    => /\ corsPromise[c] = Fulfilled(fetchPromise[c].value)
       /\ result[c] = Rejected(HttpErrorFor(fetchPromise[c].value))

\* C7 witness: CORS mode off, a 404 without the header, rejected as HttpError.
C7_Witness ==
  \E c \in Calls :
    /\ Settled(c) /\ init[c].ampCors = FALSE /\ ~allowFailure[c]
    /\ fetchPromise[c] = Fulfilled([status |-> 404, allowSourceOrigin |-> "absent"])
    /\ result[c].state = "rejected" /\ result[c].reason.type = "HttpError"
    /\ result[c].reason.response.status = 404

\* C8: when the interceptor supplied a response, transport selection is not
\* reached: no transport is invoked, and the interceptor's response is the
\* one fetch_ hands to verification.
C8_InterceptedSkipsTransport ==
  \A c \in Calls :
    (viewerPromise[c].state = "fulfilled" /\ viewerPromise[c].value \in Responses)
    => /\ nativeCalls[c] = 0 /\ polyfillCalls[c] = 0
       /\ kind[c] \notin {"native", "fallback"}
       /\ pc[c] # "transport"
       /\ pc[c] \in {"fetched", "verified", "done"}
            => (kind[c] = "intercepted" /\ fetchPromise[c] = viewerPromise[c])

\* C8 witness: a call settled on an interceptor response, no transport used.
C8_Witness ==
  \E c \in Calls :
    /\ Settled(c) /\ kind[c] = "intercepted"
    /\ viewerPromise[c].value \in Responses
    /\ fetchPromise[c] = viewerPromise[c]
    /\ nativeCalls[c] + polyfillCalls[c] = 0

\* C9: when isSingleDoc() answered false at construction, ampdocSingle_ is
\* null, the interception collaborator is never consulted, no call is
\* intercepted and every dispatched call goes to a transport.
C9_NoInterceptionOutsideSingleDoc ==
  ~isSingleDoc
  => /\ ampdocSingle_ = "null"
     /\ \A c \in Calls :
          /\ viewerQueries[c] = 0
          /\ kind[c] # "intercepted"
          /\ viewerPromise[c] \in {Pending, Fulfilled(Nothing)}
          /\ pc[c] \in {"transport", "fetched", "verified"}
               => kind[c] \in {"native", "fallback"}
          /\ (Settled(c) /\ fetchPromise[c].state # "pending")
               => (kind[c] \in {"native", "fallback"}
                     /\ nativeCalls[c] + polyfillCalls[c] = 1)

\* C9 witness: not a single document, and a call settled through a transport.
C9_Witness ==
  \E c \in Calls :
    /\ ~isSingleDoc /\ Settled(c) /\ result[c].state = "fulfilled"
    /\ kind[c] = "native" /\ viewerQueries[c] = 0

\* C10: a request that the interceptor did not answer and whose responseType
\* is not document is sent through win.fetch when it exists and through the
\* polyfill when it does not; exactly one of the two is invoked, once.
C10_NativeElseFallback ==
  \A c \in Calls :
    (pc[c] \in {"transport", "fetched", "verified", "done"} /\ api[c] # "none"
       /\ viewerPromise[c] = Fulfilled(Nothing)
       /\ init[c].responseType # "document")
    => /\ nativeCalls[c] + polyfillCalls[c] = 1
       /\ winFetch => (kind[c] = "native" /\ nativeCalls[c] = 1)
       /\ ~winFetch => (kind[c] = "fallback" /\ polyfillCalls[c] = 1)

\* C10 witness: no win.fetch, and a non-document request went to the polyfill.
C10_Witness ==
  \E c \in Calls :
    /\ ~winFetch /\ init[c].responseType # "document"
    /\ pc[c] = "transport" /\ kind[c] = "fallback"
    /\ polyfillCalls[c] = 1 /\ nativeCalls[c] = 0

\* The url fetch_ received carries the source-origin parameter exactly when
\* CORS mode is on and the target is another origin.
Tagged(url, i) ==
  IF i.ampCors /\ url.origin # WinOrigin
    THEN url.query = <<"token=secret", "__amp_source_origin=https://cache.example">>
    ELSE url.query = <<"token=secret">>

\* C11: the stages of one call run in strict sequence.  The url is tagged
\* and the CORS init set up when the interception query is issued; no
\* transport is invoked and fetch_ has no outcome while the interception
\* promise is pending; the origin check has no outcome before fetch_ has
\* one; the status check runs only on a response that passed the origin
\* check; the caller's promise settles last, as the final step.
C11_StagesInSequence ==
  \A c \in Calls :
    /\ pc[c] \in {"intercept", "interceptSettled", "transport", "fetched",
                   "verified"}
         => /\ Tagged(handed[c].input, handed[c].init)
            /\ input[c] = handed[c].input
            /\ result[c] = Pending
    /\ viewerPromise[c] = Pending
         => /\ nativeCalls[c] = 0 /\ polyfillCalls[c] = 0
            /\ kind[c] = "none"
            /\ fetchPromise[c] = Pending
    /\ pc[c] = "transport" => viewerPromise[c] = Fulfilled(Nothing)
    /\ fetchPromise[c] = Pending => corsPromise[c] = Pending
    /\ corsPromise[c] = Pending
         => result[c] \in {Pending, Rejected(InvalidConfigurationError)}
    /\ corsPromise[c].state = "rejected"
         => corsPromise[c].reason.type \in {"CorsVerificationFailed", "XHR"}
    /\ corsPromise[c].state = "fulfilled"
         => /\ corsPromise[c] = fetchPromise[c]
            /\ init[c].ampCors => corsPromise[c].value.allowSourceOrigin = WinOrigin
    /\ result[c].state = "rejected" /\ result[c].reason.type = "HttpError"
         => corsPromise[c] = Fulfilled(result[c].reason.response)
    /\ result[c].state # "pending" <=> pc[c] = "done"

\* C11 witness: a tagged cross-origin request went through every stage, the
\* transport included, and resolved.
C11_Witness ==
  \E c \in Calls :
    /\ Settled(c) /\ kind[c] = "native" /\ init[c].ampCors
    /\ handed[c].input.origin = "https://example.com"
    /\ Len(handed[c].input.query) = 2
    /\ viewerQueries[c] = 1
    /\ result[c] = fetchPromise[c] /\ result[c].state = "fulfilled"

\* fetch_ was called for this call.
FetchCalled(c) == handed[c] # Request(NoUrl, EmptyInit)

\* C12 as stated: from the moment fetch_ receives (input, init) until the
\* call settles, no field of the request changes, a form-data wrapper body
\* included.
C12_RequestImmutable ==
  \A c \in Calls :
    FetchCalled(c) => (input[c] = handed[c].input /\ init[c] = handed[c].init)

\* C13: whenever a transport is invoked, on the document path as on the
\* native-or-polyfill path, the init it receives is the request's init with
\* a form-data wrapper body replaced by its native form data; no transport
\* receives a wrapped body.
C13_TransportSeesUnwrappedBody ==
  \A c \in Calls :
    kind[c] \in {"native", "fallback"}
    => /\ transportInit[c].body # "FormDataWrapper"
       /\ handed[c].init.body = "FormDataWrapper"
            => transportInit[c] = [handed[c].init EXCEPT !.body = "FormData"]
       /\ handed[c].init.body # "FormDataWrapper"
            => transportInit[c] = handed[c].init

\* C13 witness: a document request with a wrapped body reached the polyfill
\* unwrapped.
C13_Witness ==
  \E c \in Calls :
    /\ handed[c].init.body = "FormDataWrapper"
    /\ handed[c].init.responseType = "document"
    /\ kind[c] = "fallback" /\ polyfillCalls[c] = 1
    /\ transportInit[c].body = "FormData"

\* C14: when the invoked transport rejects, the call rejects: the transport
\* is not invoked again, the rejection is not swallowed, and the caller's
\* error has the category 'XHR', names the origin of the request url and
\* nothing more of the url (no path, no query parameter), and carries the
\* message of the transport's rejection.
C14_TransportRejectionWrapped ==
  \A c \in Calls :
    (kind[c] \in {"native", "fallback"}
       /\ fetchPromise[c] = Rejected(TransportFailure))
    => /\ nativeCalls[c] + polyfillCalls[c] = 1
       /\ pc[c] \in {"fetched", "verified", "done"}
       /\ result[c].state # "fulfilled"
       /\ pc[c] \in {"verified", "done"} => corsPromise[c].state = "rejected"
       /\ pc[c] = "done"
            => /\ result[c].state = "rejected"
               /\ result[c].reason.type = "XHR"
               /\ result[c].reason.origin \in TargetOrigins
               /\ result[c].reason.origin = handed[c].input.origin
               /\ result[c].reason.message = TransportFailure.message
               /\ result[c].reason.response = NoResponse

\* C14 witness: the polyfill rejected a tagged cross-origin request and the
\* caller holds the error naming only https://example.com.
C14_Witness ==
  \E c \in Calls :
    /\ Settled(c) /\ kind[c] = "fallback"
    /\ fetchPromise[c] = Rejected(TransportFailure)
    /\ Len(handed[c].input.query) = 2
    /\ result[c] =
         Rejected(Error("XHR", "https://example.com", "Failed to fetch", NoResponse, 1))

\* Everything the model holds about one call.
CallState(c) ==
  <<pc[c], api[c], allowFailure[c], input[c], init[c], viewerPromise[c],
    fetchPromise[c], corsPromise[c], result[c], kind[c], viewerQueries[c],
    nativeCalls[c], polyfillCalls[c], transportInit[c], handed[c]>>

\* C15: there is no retry.  Every step leaves the interception collaborator
\* queried at most once and at most one transport invoked, at most once,
\* and a call that is Resolved or Rejected takes no further step.
C15_NoRetry ==
  [][\A c \in Calls :
       /\ viewerQueries'[c] <= 1
       /\ nativeCalls'[c] + polyfillCalls'[c] <= 1
       /\ pc[c] # "idle" => viewerQueries'[c] = viewerQueries[c]
       /\ pc[c] \in {"transport", "fetched", "verified", "done"}
            => /\ nativeCalls'[c] = nativeCalls[c]
               /\ polyfillCalls'[c] = polyfillCalls[c]
       /\ pc[c] = "done" => CallState(c)' = CallState(c)]_vars

\* C15 witness: a call was rejected after one interception query and one
\* transport invocation.
C15_Witness ==
  \E c \in Calls :
    /\ Settled(c) /\ result[c].state = "rejected"
    /\ fetchPromise[c] = Rejected(TransportFailure)
    /\ viewerQueries[c] = 1
    /\ nativeCalls[c] + polyfillCalls[c] = 1

\* C16: provided the interception collaborator and the invoked transport
\* settle, every call that was made reaches a terminal state, Resolved or
\* Rejected, and stays in it; no call stays for ever in an earlier stage.
C16_EveryCallSettles ==
  \A c \in Calls :
    (pc[c] # "idle")
      ~> [](pc[c] = "done" /\ result[c].state \in {"fulfilled", "rejected"})

\* C16 witness: a call whose interception query rejected has settled.
C16_Witness ==
  \E c \in Calls :
    /\ Settled(c) /\ viewerPromise[c] = Rejected(InterceptFailure)
    /\ result[c].state = "rejected"

\* The path a call takes when it runs alone: decided by the interceptor's
\* answer to it, its own responseType and the environment's win.fetch.
PathAlone(c) ==
  IF viewerPromise[c].state = "rejected" THEN "none"
  ELSE IF viewerPromise[c].value \in Responses THEN "intercepted"
  ELSE IF handed[c].init.responseType = "document" THEN "fallback"
  ELSE IF winFetch THEN "native" ELSE "fallback"

\* The outcome of a call that runs alone: decided by what the interceptor or
\* the transport answered to it and by its own request.
OutcomeAlone(c) ==
  IF fetchPromise[c].state = "rejected"
    THEN Rejected(Error("XHR", handed[c].input.origin,
                        fetchPromise[c].reason.message, NoResponse, 1))
  ELSE IF handed[c].init.ampCors
            /\ fetchPromise[c].value.allowSourceOrigin # WinOrigin
    THEN Rejected(CorsVerificationFailed)
  ELSE IF ~Ok(fetchPromise[c].value)
    THEN Rejected(HttpErrorFor(fetchPromise[c].value))
  ELSE Fulfilled(fetchPromise[c].value)

\* C17: concurrent calls on one client instance are independent.  No step
\* writes the client's state (ampdocSingle_ keeps its constructed value), a
\* step of one call changes nothing of the other call, and in every
\* interleaving each call's path and outcome are those it has alone with the
\* same collaborator answers.
C17_CallsIndependent ==
  /\ [](\A c \in Calls :
          /\ ampdocSingle_ = AmpdocSingleFor(isSingleDoc)
          /\ pc[c] \in {"transport", "fetched", "verified", "done"}
               => kind[c] = PathAlone(c)
          /\ pc[c] = "done" => result[c] = OutcomeAlone(c))
  /\ [][/\ ampdocSingle_' = ampdocSingle_
        /\ isSingleDoc' = isSingleDoc
        /\ winFetch' = winFetch
        /\ \A c, d \in Calls :
             (c # d /\ CallState(c)' # CallState(c))
             => CallState(d)' = CallState(d)]_vars

\* C17 witness: two calls were in flight together, one at its transport and
\* one holding an interceptor response, and both settled on their own paths.
C17_Witness ==
  \E c, d \in Calls :
    /\ c # d
    /\ Settled(c) /\ kind[c] = "fallback" /\ result[c].state = "fulfilled"
    /\ handed[c].init.responseType = "document"
    /\ pc[d] = "fetched" /\ kind[d] = "intercepted"
    /\ handed[d].init.responseType = "undefined"

\* C18 as stated: a request that combines responseType 'document' with a
\* body-bearing method is rejected with InvalidConfiguration before
\* dispatch: the interception collaborator is not consulted, no transport
\* is invoked and the caller's promise is rejected.
C18_InvalidConfigurationBeforeDispatch ==
  \A c \in Calls :
    (api[c] # "none" /\ init[c].responseType = "document"
       /\ init[c].method = "POST")
    => /\ viewerQueries[c] = 0
       /\ nativeCalls[c] = 0 /\ polyfillCalls[c] = 0
       /\ result[c] = Rejected(InvalidConfigurationError)

\* C19: sendSignal runs the pipeline of fetch and confirms success.  The url
\* is tagged, the interceptor is consulted in a single-document
\* environment, the transport is selected as for fetch, and the promise
\* fulfils only with the response fetch_ obtained, that response having
\* passed the origin check and having a 2XX status; a response that passed
\* the origin check with another status rejects the promise with HttpError.
C19_SendSignalConfirmsSuccess ==
  \A c \in Calls :
    api[c] = "sendSignal"
    => /\ Tagged(handed[c].input, handed[c].init)
       /\ viewerQueries[c] = (IF isSingleDoc THEN 1 ELSE 0)
       /\ kind[c] \in {"native", "fallback"}
            => kind[c] = (IF handed[c].init.responseType = "document"
                            THEN "fallback"
                            ELSE IF winFetch THEN "native" ELSE "fallback")
       /\ result[c].state = "fulfilled"
            => /\ result[c] = fetchPromise[c]
               /\ Ok(result[c].value)
               /\ init[c].ampCors => result[c].value.allowSourceOrigin = WinOrigin
       /\ (Settled(c) /\ GotResponse(c) /\ ~Ok(fetchPromise[c].value)
             /\ (init[c].ampCors
                   => fetchPromise[c].value.allowSourceOrigin = WinOrigin))
            => result[c] = Rejected(HttpErrorFor(fetchPromise[c].value))

\* C19 witness: sendSignal got a 404 that passed the origin check and was
\* rejected.
C19_Witness ==
  \E c \in Calls :
    /\ api[c] = "sendSignal" /\ Settled(c) /\ init[c].ampCors
    /\ fetchPromise[c] =
         Fulfilled([status |-> 404, allowSourceOrigin |-> "https://cache.example"])
    /\ result[c].state = "rejected" /\ result[c].reason.type = "HttpError"

\* C20: when the interception query rejects, the call does not fall through
\* to a transport: no transport is invoked, no check runs on a response,
\* and the call rejects with the wrapped 'XHR' error that names the target
\* origin and carries the interceptor's message.
C20_InterceptRejectionNotFallenThrough ==
  \A c \in Calls :
    viewerPromise[c].state = "rejected"
    => /\ nativeCalls[c] = 0 /\ polyfillCalls[c] = 0
       /\ kind[c] = "none"
       /\ pc[c] \in {"interceptSettled", "fetched", "verified", "done"}
       /\ pc[c] # "interceptSettled" => fetchPromise[c] = viewerPromise[c]
       /\ pc[c] \in {"verified", "done"}
            => corsPromise[c] =
                 Rejected(Error("XHR", handed[c].input.origin,
                                viewerPromise[c].reason.message, NoResponse, 1))
       /\ pc[c] = "done" => result[c] = corsPromise[c]

\* C20 witness: the interceptor rejected and the caller holds the wrapped
\* error for https://example.com.
C20_Witness ==
  \E c \in Calls :
    /\ Settled(c) /\ viewerPromise[c] = Rejected(InterceptFailure)
    /\ nativeCalls[c] + polyfillCalls[c] = 0
    /\ result[c] =
         Rejected(Error("XHR", "https://example.com", "viewer rejected", NoResponse, 1))

====
